---- MODULE Spec2Model ----
(***************************************************************************)
(* Model of orbkit/grid.py: the process-wide grid state (module globals)   *)
(* and the operations that read and mutate it.                             *)
(*                                                                         *)
(* Floating-point values are modelled as exact rationals <<n, d>> with     *)
(* d > 0 and gcd(n, d) = 1, extended by the IEEE specials numpy produces   *)
(* instead of raising: <<1,0>> = +inf, <<-1,0>> = -inf, <<0,0>> = nan.     *)
(* Rounding error of float64 is not modelled.                              *)
(***************************************************************************)
EXTENDS Integers, Sequences, FiniteSets, TLC

(***************************************************************************)
(* Arithmetic of numpy.float64                                             *)
(***************************************************************************)
NaN  == <<0, 0>>
PInf == <<1, 0>>
NInf == <<-1, 0>>

RECURSIVE GCD(_, _)
GCD(a, b) == IF b = 0 THEN a ELSE GCD(b, a % b)

AbsI(n) == IF n < 0 THEN -n ELSE n
SignI(n) == IF n < 0 THEN -1 ELSE IF n = 0 THEN 0 ELSE 1

\* the rational n/d, d # 0, in lowest terms with a positive denominator
Q(n, d) ==
  LET g == GCD(AbsI(n), AbsI(d))
      s == IF d < 0 THEN -1 ELSE 1
  IN  <<(s * n) \div g, (s * d) \div g>>

F(n) == <<n, 1>>

IsNaN(p) == p = NaN
IsFinite(p) == p[2] > 0

FNeg(p) == <<-p[1], p[2]>>

FAbs(p) == <<AbsI(p[1]), p[2]>>

FAdd(p, q) ==
  IF IsNaN(p) \/ IsNaN(q) THEN NaN
  ELSE IF p[2] = 0 /\ q[2] = 0 THEN (IF p = q THEN p ELSE NaN)
  ELSE IF p[2] = 0 THEN p
  ELSE IF q[2] = 0 THEN q
  ELSE Q(p[1] * q[2] + q[1] * p[2], p[2] * q[2])

FSub(p, q) == FAdd(p, FNeg(q))

FMul(p, q) ==
  IF IsNaN(p) \/ IsNaN(q) THEN NaN
  ELSE IF p[2] = 0 \/ q[2] = 0
       THEN <<SignI(p[1]) * SignI(q[1]), 0>>
  ELSE Q(p[1] * q[1], p[2] * q[2])

\* 1/q; 1/0 is +inf (the divisors that reach zero here are +0.0)
FInv(q) ==
  IF IsNaN(q) THEN NaN
  ELSE IF q[2] = 0 THEN F(0)
  ELSE IF q[1] = 0 THEN PInf
  ELSE Q(q[2], q[1])

FDiv(p, q) == FMul(p, FInv(q))

\* comparisons are false as soon as one side is nan
FLt(p, q) ==
  /\ ~IsNaN(p)
  /\ ~IsNaN(q)
  /\ IF p[2] = 0 /\ q[2] = 0 THEN p[1] < q[1]
     ELSE IF p[2] = 0 THEN p[1] < 0
     ELSE IF q[2] = 0 THEN q[1] > 0
     ELSE p[1] * q[2] < q[1] * p[2]

FEq(p, q) == ~IsNaN(p) /\ ~IsNaN(q) /\ p = q

FLe(p, q) == FLt(p, q) \/ FEq(p, q)

\* numpy.round: to the nearest integer, halves to the even neighbour
FRound(p) ==
  IF ~IsFinite(p) THEN p
  ELSE LET fl  == p[1] \div p[2]
           rem == p[1] - fl * p[2]
       IN  IF 2 * rem < p[2] THEN F(fl)
           ELSE IF 2 * rem > p[2] THEN F(fl + 1)
           ELSE IF fl % 2 = 0 THEN F(fl) ELSE F(fl + 1)

\* conversion float -> int of numpy.array(..., dtype=int): towards zero
Trunc(p) ==
  IF p[1] >= 0 THEN p[1] \div p[2] ELSE -((-p[1]) \div p[2])

\* numpy.product over a triple of floats / of ints
FProd3(t) == FMul(FMul(t[1], t[2]), t[3])
IProd3(t) == t[1] * t[2] * t[3]

\* builtin min / max over a non-empty sequence s: m = s[0], then m = e for
\* every later e with e < m (resp. e > m).  A comparison with nan is false:
\* a nan in first place is never replaced and a later nan never replaces, so
\* the fold ends on nan or on the least (greatest) of the other elements.
Comparable(s) == {s[k] : k \in {k \in 1..Len(s) : ~IsNaN(s[k])}}
PyMin(s) ==
  IF IsNaN(s[1]) THEN NaN
  ELSE CHOOSE m \in Comparable(s) : \A e \in Comparable(s) : FLe(m, e)
PyMax(s) ==
  IF IsNaN(s[1]) THEN NaN
  ELSE CHOOSE m \in Comparable(s) : \A e \in Comparable(s) : FLe(e, m)

(***************************************************************************)
(* Module globals                                                          *)
(***************************************************************************)
DefaultMin == -8
DefaultMax == 8
DefaultN   == 101

\* d3r is not bound at module level before the first grid_init/center_grid
Undefined == <<0, -1>>

VARIABLES
  x, y, z,          \* coordinate sequences
  is_list,          \* TRUE while x, y, z are the module's initial Python lists
  min_, max_, N_,   \* per-axis bounds and counts
  delta_,           \* per-axis spacing
  d3r,              \* cell volume
  is_initialized,
  op,               \* bookkeeping: the last call, its argument and outcome
  form,             \* bookkeeping: how the coordinate arrays were produced
  saved,            \* bookkeeping: x, y, z before the last grid2vector
  ncenter           \* bookkeeping: number of center_grid calls so far

gridvars == <<x, y, z, is_list, min_, max_, N_, delta_, d3r, is_initialized>>
vars == <<x, y, z, is_list, min_, max_, N_, delta_, d3r, is_initialized,
          op, form, saved, ncenter>>

Axes == 1..3

Call(name, arg, res) == [name |-> name, arg |-> arg, res |-> res]

\* a C-level crash ends the process; nothing can be called afterwards
Alive == op.res # "crash"

Init ==
  /\ x = <<F(0)>>
  /\ y = <<F(0)>>
  /\ z = <<F(0)>>
  /\ is_list = TRUE
  /\ min_ = <<F(DefaultMin), F(DefaultMin), F(DefaultMin)>>
  /\ max_ = <<F(DefaultMax), F(DefaultMax), F(DefaultMax)>>
  /\ N_ = <<DefaultN, DefaultN, DefaultN>>
  /\ delta_ = <<F(0), F(0), F(0)>>
  /\ d3r = Undefined
  /\ is_initialized = FALSE
  /\ op = Call("import", "", "ok")
  /\ form = "unset"
  /\ saved = <<>>
  /\ ncenter = 0


(***************************************************************************)
(* grid_init                                                               *)
(***************************************************************************)
\* the spacing written for a degenerate axis
SentinelDelta == 1

\* a grid_init that never returns early
grid_init_unguarded == FALSE

\* line 55: the early return
grid_init_guard == is_initialized

\* lines 64, 67, 70: spacing of one axis.  min_ and max_ hold numpy.float64
\* whenever a count other than the default is in force (read and center_grid
\* are the only writers of N_ besides the defaults), so a count of 1 divides
\* by float(0) without raising and yields +-inf.
AxisDelta(mn, mx, n) ==
  IF FEq(mx, mn) THEN F(SentinelDelta)
  ELSE FDiv(FSub(mx, mn), F(n - 1))

\* an axis built without the branch for max == min
AxisGridNoCollapse(mn, mx, n) ==
  [k \in 1..n |->
     FAdd(mn, FMul(F(k - 1), FDiv(FSub(mx, mn), F(n - 1))))]

\* lines 66, 71: coordinates of one axis; numpy.arange(n) is empty for n <= 0
AxisGrid(mn, mx, n) ==
  IF FEq(mx, mn) THEN <<mn>>
  ELSE LET d == AxisDelta(mn, mx, n)
       IN  [k \in 1..n |-> FAdd(mn, FMul(F(k - 1), d))]

(***************************************************************************)
(* grid2vector / vector2grid: the same inline C loop                       *)
(***************************************************************************)
MaxPoints == 12   \* largest buffer numpy.product(N_) that is expanded

\* GRID2(r, count) addresses element r*M + count of a buffer of 3 rows of
\* M doubles stored row after row; the macro has no bounds check, so a
\* column past M lands in a following row, or outside the allocation
Grid2Index(M, r, count) == r * M + count

\* lines 129-141: the value iteration count writes through GRID2(r, count)
LoopValue(r, count, X, Y, Z) ==
  LET i == count \div (Len(Y) * Len(Z))
      j == (count \div Len(Z)) % Len(Y)
      k == count % Len(Z)
  IN  IF r = 0 THEN X[i + 1] ELSE IF r = 1 THEN Y[j + 1] ELSE Z[k + 1]

\* the writes (count, r) of a loop of T iterations that land on element f
WritesTo(f, M, T) ==
  {w \in {<<f - r * M, r>> : r \in 0..2} :
     /\ w[1] >= 0
     /\ w[1] < T
     /\ Grid2Index(M, w[2], w[1]) = f}

\* program order of two writes: by iteration, then by row
Before(v, w) == v[1] < w[1] \/ (v[1] = w[1] /\ v[2] <= w[2])

\* what element f of the zero-initialised buffer holds after the loop: the
\* value of the last write that landed on it
AfterLoop(f, M, X, Y, Z) ==
  LET ws == WritesTo(f, M, Len(X) * Len(Y) * Len(Z))
  IN  IF ws = {} THEN F(0)
      ELSE LET w == CHOOSE w \in ws : \A v \in ws : Before(v, w)
           IN  LoopValue(w[2], w[1], X, Y, Z)

\* lines 124-148: numpy.zeros((3, M)), the loop, the three rows
Flatten(M, X, Y, Z) ==
  [r \in 0..2 |-> [c \in 1..M |-> AfterLoop(r * M + c - 1, M, X, Y, Z)]]

\* the loop writes outside the allocation as soon as it runs more than M times
Overflows(M, X, Y, Z) == Len(X) * Len(Y) * Len(Z) > M

\* outcomes of one call of the flattening routine on arrays X, Y, Z:
\* "error"  weave cannot convert Python lists / numpy.zeros refuses M < 0
\* "ok"     the loop ran (inside the buffer, or past it without a fault)
\* "crash"  the loop wrote past the buffer and the process died
FlattenOutcomes(M, X, Y, Z, lists) ==
  IF lists \/ M < 0 THEN {[res |-> "error", rows |-> <<>>]}
  ELSE {[res |-> "ok", rows |-> Flatten(M, X, Y, Z)]}
       \cup (IF Overflows(M, X, Y, Z)
             THEN {[res |-> "crash", rows |-> <<>>]} ELSE {})

FlattenEnabled == IProd3(N_) <= MaxPoints

grid2vector ==
  /\ Alive
  /\ FlattenEnabled
  /\ \E o \in FlattenOutcomes(IProd3(N_), x, y, z, is_list) :
       /\ op' = Call("grid2vector", "", o.res)
       /\ IF o.res = "ok"
          THEN /\ x' = o.rows[0]
               /\ y' = o.rows[1]
               /\ z' = o.rows[2]
               /\ saved' = IF form = "regular" THEN <<x, y, z>> ELSE <<>>
               /\ form' = IF form = "regular" THEN "flat" ELSE "other"
          ELSE UNCHANGED <<x, y, z, saved, form>>
  /\ UNCHANGED <<is_list, min_, max_, N_, delta_, d3r, is_initialized, ncenter>>

vector2grid ==
  /\ Alive
  /\ FlattenEnabled
  /\ \E o \in FlattenOutcomes(IProd3(N_), x, y, z, is_list) :
       /\ op' = Call("vector2grid", "", o.res)
       /\ IF o.res = "ok"
          THEN /\ x' = o.rows[0]
               /\ y' = o.rows[1]
               /\ z' = o.rows[2]
               /\ form' = IF form = "flat" THEN "reflat" ELSE "other"
               /\ saved' = IF form = "flat" THEN saved ELSE <<>>
          ELSE UNCHANGED <<x, y, z, form, saved>>
  /\ UNCHANGED <<is_list, min_, max_, N_, delta_, d3r, is_initialized, ncenter>>

grid_init(is_vector) ==
  /\ Alive
  /\ IF grid_init_guard
     THEN /\ op' = Call("grid_init", is_vector, "noop")
          /\ UNCHANGED <<gridvars, form, saved, ncenter>>
     ELSE LET d  == [ii \in Axes |-> AxisDelta(min_[ii], max_[ii], N_[ii])]
              g  == [ii \in Axes |-> AxisGrid(min_[ii], max_[ii], N_[ii])]
              M  == IProd3(N_)
          IN  /\ delta_' = d
              /\ d3r' = FProd3(d)
              /\ is_list' = FALSE
              /\ saved' = <<>>
              /\ UNCHANGED <<min_, max_, N_, ncenter>>
              /\ IF ~is_vector
                 THEN /\ x' = g[1]
                      /\ y' = g[2]
                      /\ z' = g[3]
                      /\ is_initialized' = TRUE
                      /\ form' = "regular"
                      /\ op' = Call("grid_init", is_vector, "ok")
                 ELSE /\ M <= MaxPoints
                      /\ \E o \in FlattenOutcomes(M, g[1], g[2], g[3], FALSE) :
                           /\ op' = Call("grid_init", is_vector, o.res)
                           /\ IF o.res = "ok"
                              THEN /\ x' = o.rows[0]
                                   /\ y' = o.rows[1]
                                   /\ z' = o.rows[2]
                                   /\ is_initialized' = TRUE
                                   /\ form' = "vector"
                              ELSE \* grid2vector raised or died after
                                   \* x, y, z were written (lines 74-76)
                                   /\ x' = g[1]
                                   /\ y' = g[2]
                                   /\ z' = g[3]
                                   /\ is_initialized' = FALSE
                                   /\ form' = "other"

(***************************************************************************)
(* reset_grid                                                              *)
(***************************************************************************)
reset_grid ==
  /\ Alive
  /\ is_initialized' = FALSE
  /\ min_' = <<F(DefaultMin), F(DefaultMin), F(DefaultMin)>>
  /\ max_' = <<F(DefaultMax), F(DefaultMax), F(DefaultMax)>>
  /\ N_' = <<DefaultN, DefaultN, DefaultN>>
  /\ op' = Call("reset_grid", "", "ok")
  /\ form' = "other"
  /\ saved' = <<>>
  /\ UNCHANGED <<x, y, z, is_list, delta_, d3r, ncenter>>


(***************************************************************************)
(* center_grid                                                             *)
(***************************************************************************)
MaxCenter == 1    \* center_grid calls expanded along one behaviour

\* anchors the callers pass (rows of a numpy array of atom positions)
Anchors ==
  { <<F(0), F(0), F(0)>>,
    <<Q(-3, 2), Q(-3, 2), Q(-3, 2)>>,
    <<Q(-3, 2), F(0), Q(1, 2)>>,
    <<F(0), F(0), F(2)>>,
    <<F(9), F(0), F(0)>> }

\* lines 366-369
DTilde(a) == FAbs(FSub(F(0), a))
NTilde(a, d) == FRound(FAbs(FDiv(DTilde(a), d)))

\* lines 372-373; nan != 0 is true in numpy
NewDelta(a, d) ==
  IF ~FEq(NTilde(a, d), F(0)) THEN FDiv(DTilde(a), NTilde(a, d)) ELSE d

\* line 378: indices k with ac[ii] <= grid[ii][k]
Hits(g, a) == {k \in 1..Len(g) : FLe(a, g[k])}

\* numpy.nonzero(...)[0][0]: the first such index
Position(g, a) ==
  LET hs == Hits(g, a) IN CHOOSE k \in hs : \A h \in hs : k <= h

\* a shift that puts the grid point on the anchor
ShiftOntoAnchor(g, a, d) == FNeg(FAbs(FSub(g[Position(g, a)], a)))

\* lines 379-380
ShiftOf(g, a, d) ==
  FSub(FMul(Q(1, 2), d), FAbs(FSub(g[Position(g, a)], a)))

\* line 381: grid[ii] += c adds c to every element of an ndarray in place;
\* on a Python list, += extends the list by the elements of c
ShiftAxis(g, a, d, lists) ==
  LET c == ShiftOf(g, a, d)
  IN  IF lists THEN Append(g, c) ELSE [k \in 1..Len(g) |-> FAdd(g[k], c)]

\* the axes (in order) whose coordinates have no value >= the anchor: the
\* first one raises IndexError at line 378
Failing(g, ac) == {ii \in Axes : Hits(g[ii], ac[ii]) = {}}

center_grid(ac) ==
  /\ Alive
  /\ ncenter < MaxCenter
  /\ ncenter' = ncenter + 1
  /\ LET nd == [ii \in Axes |-> NewDelta(ac[ii], delta_[ii])]
         g  == <<x, y, z>>
         bad == Failing(g, ac)
         stop == IF bad = {} THEN 4
                 ELSE CHOOSE ii \in bad : \A jj \in bad : ii <= jj
         ng == [ii \in Axes |->
                  IF ii < stop THEN ShiftAxis(g[ii], ac[ii], nd[ii], is_list)
                  ELSE g[ii]]
     IN  /\ delta_' = nd
         /\ x' = ng[1]
         /\ y' = ng[2]
         /\ z' = ng[3]
         /\ IF bad = {}
            THEN /\ d3r' = FProd3(nd)
                 /\ min_' = [ii \in Axes |-> PyMin(ng[ii])]
                 /\ max_' = [ii \in Axes |-> PyMax(ng[ii])]
                 /\ N_' = [ii \in Axes |-> Len(ng[ii])]
                 /\ form' = IF form \in {"regular", "centered"}
                            THEN "centered" ELSE "other"
                 /\ op' = Call("center_grid", ac, "ok")
            ELSE /\ UNCHANGED <<d3r, min_, max_, N_>>
                 /\ form' = "other"
                 /\ op' = Call("center_grid", ac, "IndexError")
  /\ saved' = <<>>
  /\ UNCHANGED <<is_list, is_initialized>>

(***************************************************************************)
(* sph2cart_vector                                                         *)
(***************************************************************************)
\* angles are given in quarter turns (k stands for k*pi/2), where sine and
\* cosine are exact
SinQ(k) == F(<<0, 1, 0, -1>>[(k % 4) + 1])
CosQ(k) == F(<<1, 0, -1, 0>>[(k % 4) + 1])

Radii  == {<<F(1)>>, <<F(1), F(2)>>}
Thetas == {<<0>>, <<1>>, <<0, 1>>}
Phis   == {<<0>>, <<0, 1>>}

\* lines 211-223, the buffer has len(r)*len(theta)*len(phi) columns
SphPoint(r, theta, phi, count) ==
  LET i == count \div (Len(theta) * Len(phi))
      j == (count \div Len(phi)) % Len(theta)
      k == count % Len(phi)
  IN  << FMul(FMul(r[i + 1], SinQ(theta[j + 1])), CosQ(phi[k + 1])),
         FMul(FMul(r[i + 1], SinQ(theta[j + 1])), SinQ(phi[k + 1])),
         FMul(r[i + 1], CosQ(theta[j + 1])) >>

sph2cart_vector(r, theta, phi) ==
  /\ Alive
  /\ LET n == Len(r) * Len(theta) * Len(phi)
     IN  /\ x' = [c \in 1..n |-> SphPoint(r, theta, phi, c - 1)[1]]
         /\ y' = [c \in 1..n |-> SphPoint(r, theta, phi, c - 1)[2]]
         /\ z' = [c \in 1..n |-> SphPoint(r, theta, phi, c - 1)[3]]
  /\ is_list' = FALSE
  /\ op' = Call("sph2cart_vector", "", "ok")
  /\ form' = "other"
  /\ saved' = <<>>
  /\ UNCHANGED <<min_, max_, N_, delta_, d3r, is_initialized, ncenter>>

(***************************************************************************)
(* random_grid                                                             *)
(***************************************************************************)
MaxSamples == 1   \* points drawn around each atom

GeoSpecs == { << <<F(0), F(0), F(0)>> >> }

\* deviations numpy.random.normal may return from the mean
Noise == {Q(-1, 2), Q(1, 2)}

\* lines 252-264: (3, at_num, N) reshaped to (3, N*at_num): by atom, then
\* by sample
random_grid(geo_spec, N) ==
  /\ Alive
  /\ LET n == Len(geo_spec) * N
         atom(c) == ((c - 1) \div N) + 1
     IN  \E e \in [Axes -> [1..n -> Noise]] :
           /\ x' = [c \in 1..n |-> FAdd(geo_spec[atom(c)][1], e[1][c])]
           /\ y' = [c \in 1..n |-> FAdd(geo_spec[atom(c)][2], e[2][c])]
           /\ z' = [c \in 1..n |-> FAdd(geo_spec[atom(c)][3], e[3][c])]
  /\ is_list' = FALSE
  /\ is_initialized' = TRUE
  /\ op' = Call("random_grid", "", "ok")
  /\ form' = "other"
  /\ saved' = <<>>
  /\ UNCHANGED <<min_, max_, N_, delta_, d3r, ncenter>>

(***************************************************************************)
(* read                                                                    *)
(***************************************************************************)
\* A file is a sequence of lines, a line the sequence of its whitespace-
\* separated tokens (line.split()), a token a string.
Comment == "#"

\* numeric literals the files use
MaxLiteral == 9
Literals == {ToString(n) : n \in (-MaxLiteral)..MaxLiteral}

\* float(token): the value of a numeric literal; anything else raises
IsNumber(tok) == tok \in Literals
ParseFloat(tok) ==
  F(CHOOSE n \in (-MaxLiteral)..MaxLiteral : ToString(n) = tok)

\* str.lower on the tokens that occur
Lower(tok) ==
  IF tok = "X" THEN "x" ELSE IF tok = "Y" THEN "y"
  ELSE IF tok = "Z" THEN "z" ELSE tok

\* 'xyz'.find(token): position of the token as a substring, else -1
DimFind(tok) ==
  IF tok \in {"x", "xy", "xyz"} THEN 0
  ELSE IF tok \in {"y", "yz"} THEN 1
  ELSE IF tok = "z" THEN 2
  ELSE -1

\* list indexing with a Python index in -1..2, as a position 1..3
Slot(idx) == IF idx < 0 THEN idx + 4 ELSE idx + 1

\* a check that never raises
check_by_length(i, is_vector) == IF Len(i) = 3 THEN "True" ELSE "False"

\* lines 316-322; is_vector is "None", "True" or "False"
check(i, is_vector) ==
  IF Len(i) = 3 /\ is_vector \in {"None", "True"} THEN "True"
  ELSE IF Len(i) = 4 /\ is_vector \in {"None", "False"} THEN "False"
  ELSE "raise"

\* index[i] == [] holds until the column has been named
Unset == -2

\* columns taken as x, y, z in file order, whatever the header says
RECURSIVE VectorLineInOrder(_, _, _)
VectorLineInOrder(st, cl, i) ==
  IF i > Len(cl) THEN st
  ELSE IF st.index[i] = Unset
       THEN VectorLineInOrder([st EXCEPT !.index[i] = i - 1], cl, i + 1)
       ELSE VectorLineInOrder(
              [st EXCEPT !.grid[Slot(st.index[i])] = Append(@, cl[i])],
              cl, i + 1)

\* lines 338-342: one token of a three-token line
RECURSIVE VectorLine(_, _, _)
VectorLine(st, cl, i) ==
  IF i > Len(cl) THEN st
  ELSE IF st.index[i] = Unset
       THEN VectorLine([st EXCEPT !.index[i] = DimFind(cl[i])], cl, i + 1)
       ELSE VectorLine(
              [st EXCEPT !.grid[Slot(st.index[i])] = Append(@, cl[i])],
              cl, i + 1)

\* line 344
RegularLine(st, cl) ==
  [st EXCEPT !.grid[Slot(DimFind(Lower(cl[1])))] = Tail(cl)]

\* lines 332-344: the loop over the lines, stopped by the IOError of check
RECURSIVE ReadLines(_, _, _)
ReadLines(f, l, st) ==
  IF l > Len(f) THEN st
  ELSE LET cl == f[l]
       IN  IF cl = <<>> \/ cl[1] = Comment THEN ReadLines(f, l + 1, st)
           ELSE LET v == check(cl, st.is_vector)
                IN  IF v = "raise" THEN [st EXCEPT !.is_vector = "raise"]
                    ELSE IF v = "True"
                    THEN ReadLines(f, l + 1,
                           VectorLine([st EXCEPT !.is_vector = v], cl, 1))
                    ELSE ReadLines(f, l + 1,
                           RegularLine([st EXCEPT !.is_vector = v], cl))

\* lines 325-329
ReadStart ==
  [is_vector |-> "None",
   grid  |-> << <<>>, <<>>, <<>> >>,
   index |-> <<Unset, Unset, Unset>>]

\* line 347: numpy.array(grid, dtype=float64) needs three rows of one
\* length made of numeric literals
Rectangular(g) ==
  /\ Len(g[1]) = Len(g[2])
  /\ Len(g[2]) = Len(g[3])
  /\ \A r \in 1..3 : \A c \in 1..Len(g[r]) : IsNumber(g[r][c])

ToArray(g) == [r \in 1..3 |-> [c \in 1..Len(g[r]) |-> ParseFloat(g[r][c])]]

\* the column of N_ in the converted array (grid[:,2])
CountColumn == 3

\* lines 331-358 up to the assignments: what the call returns or raises,
\* and the converted array
ReadParse(f) ==
  LET st == ReadLines(f, 1, ReadStart)
  IN  IF st.is_vector = "raise" THEN [res |-> "IOError", grid |-> <<>>]
      ELSE IF ~Rectangular(st.grid) THEN [res |-> "ValueError", grid |-> <<>>]
      ELSE IF st.is_vector = "True"
           THEN [res |-> "True", grid |-> ToArray(st.grid)]
      ELSE IF Len(st.grid[1]) = 0
           THEN [res |-> "IndexError", grid |-> <<>>]
      ELSE [res |-> st.is_vector, grid |-> ToArray(st.grid)]

\* bookkeeping: the kind of file that was passed
DataLines(f) == SelectSeq(f, LAMBDA cl : cl # <<>> /\ cl[1] # Comment)
Mixed(f) ==
  /\ \E l \in 1..Len(f) : f[l] # <<>> /\ f[l][1] # Comment /\ Len(f[l]) = 3
  /\ \E l \in 1..Len(f) : f[l] # <<>> /\ f[l][1] # Comment /\ Len(f[l]) = 4
FileClass(f) ==
  IF Mixed(f) THEN "mixed"
  ELSE IF \E l \in 1..Len(f) : Len(f[l]) = 3 /\ f[l][1] # Comment THEN "three"
  ELSE IF \E l \in 1..Len(f) : Len(f[l]) = 4 /\ f[l][1] # Comment THEN "four"
  ELSE "other"

(***************************************************************************)
(* Inputs                                                                  *)
(***************************************************************************)
MaxRows == 2      \* points in a vector-format file

Perms ==
  { <<"x", "y", "z">>, <<"x", "z", "y">>, <<"y", "x", "z">>,
    <<"y", "z", "x">>, <<"z", "x", "y">>, <<"z", "y", "x">> }

VecRows == { <<"5", "-5", "0">>, <<"2", "7", "0">> }

RowSeqs == UNION {[1..n -> VecRows] : n \in 0..MaxRows}

VectorFiles == {<<h>> \o rs : h \in Perms, rs \in RowSeqs}

\* <min> <max> <count> of the x, y and z line of a regular-format file
Shapes ==
  { \* odd and even counts on symmetric bounds, a degenerate axis
    << <<"-1", "1", "3">>, <<"-1", "1", "2">>, <<"0", "0", "2">> >>,
    \* even counts on symmetric bounds
    << <<"-1", "1", "2">>, <<"-1", "1", "2">>, <<"-1", "1", "2">> >>,
    \* a count of zero
    << <<"-1", "1", "0">>, <<"-1", "1", "2">>, <<"-1", "1", "2">> >>,
    \* a count of one on an axis with min # max
    << <<"-1", "1", "1">>, <<"-1", "1", "2">>, <<"-1", "1", "2">> >>,
    \* max < min, and a degenerate axis with a count of one
    << <<"1", "-1", "2">>, <<"-1", "1", "2">>, <<"0", "0", "1">> >>,
    \* three different axes
    << <<"0", "1", "2">>, <<"-1", "1", "3">>, <<"-2", "1", "2">> >> }

RegularFile(sx, sy, sz) == << <<"x">> \o sx, <<"y">> \o sy, <<"z">> \o sz >>

RegularFiles == {RegularFile(s[1], s[2], s[3]) : s \in Shapes}

\* the example of the docstring of read (a count of 9 for its 11), its
\* lines in another order and with upper-case axis letters, and a
\* commented variant
DocRegular ==
  << <<"x", "-5", "5", "9">>, <<"y", "-2", "2", "5">>, <<"z", "0", "0", "1">> >>
DocShuffled ==
  << <<"Z", "0", "0", "1">>, <<"x", "-5", "5", "9">>, <<"Y", "-2", "2", "5">> >>
Decorate(f) == << <<Comment, "grid">>, f[1], <<>> >> \o Tail(f)

CoreRegular == RegularFile(<<"-1", "1", "3">>, <<"-1", "1", "2">>, <<"0", "0", "2">>)
CoreVector  == << <<"x", "y", "z">>, <<"5", "-5", "0">> >>

InsertAt(f, p, cl) == SubSeq(f, 1, p) \o <<cl>> \o SubSeq(f, p + 1, Len(f))

\* files mixing three-token and four-token lines
MixedFiles ==
  {InsertAt(DocRegular, p, cl) :
     p \in 0..3, cl \in {<<"x", "y", "z">>, <<"5", "-5", "0">>}}
  \cup {InsertAt(f, p, <<"x", "-5", "5", "9">>) :
          f \in {CoreVector, Decorate(CoreVector)}, p \in 0..2}
  \cup {Decorate(InsertAt(DocRegular, 2, <<"x", "y", "z">>))}

\* files that are neither: empty, a two-token line, an axis missing, an
\* unknown axis letter, a word where a number belongs, no header, two
\* headers, a header naming one axis twice
OddFiles ==
  { <<>>,
    << <<Comment, "nothing">>, <<>> >>,
    << <<"x", "y">> >>,
    << <<"x", "-5", "5", "9">>, <<"y", "-2", "2", "5">> >>,
    << <<"x", "-5", "5", "9">>, <<"y", "-2", "2", "5">>, <<"q", "0", "0", "1">> >>,
    << <<"x", "-5", "5", "9">>, <<"y", "-2", "2", "5">>, <<"z", "0", "abc", "1">> >>,
    << <<"5", "-5", "0">> >>,
    << <<"5", "-5", "0">>, <<"2", "7", "0">> >>,
    << <<"x", "y", "z">>, <<"x", "y", "z">> >>,
    << <<"x", "x", "y">> >>,
    << <<"x", "x", "y">>, <<"5", "-5", "0">> >> }

CodecFiles ==
  VectorFiles \cup {Decorate(<<<<"y", "x", "z">>>> \o rs) : rs \in RowSeqs}
  \cup {DocRegular, DocShuffled, Decorate(DocRegular), CoreRegular}
  \cup MixedFiles \cup OddFiles

CoreFiles ==
  {CoreRegular, CoreVector, InsertAt(CoreRegular, 1, <<"x", "y", "z">>)}

CoreAnchors == { <<F(0), F(0), F(0)>>, <<Q(-3, 2), F(0), Q(1, 2)>> }

\* ReadParse on every file that is passed, evaluated once
AllFiles == CodecFiles \cup RegularFiles \cup CoreFiles
ParseTable == [f \in AllFiles |-> ReadParse(f)]

\* bookkeeping: the kind of file passed and, once read, the file
FileArg(f, res) ==
  [kind |-> FileClass(f), file |-> IF res \in {"True", "False"} THEN f ELSE <<>>]

\* a read that clears is_initialized unless it read points
InitializedAfterReadCleared(res, was) == res = "True"

\* lines 348-356: is_initialized after a read that returned is_vector
InitializedAfterRead(res, was) == IF res = "True" THEN TRUE ELSE was

read(f) ==
  /\ Alive
  /\ LET r == ParseTable[f]
     IN  /\ op' = Call("read", FileArg(f, r.res), r.res)
         /\ is_initialized' = InitializedAfterRead(r.res, is_initialized)
         /\ IF r.res = "True"
            THEN /\ x' = r.grid[1]
                 /\ y' = r.grid[2]
                 /\ z' = r.grid[3]
                 /\ is_list' = FALSE
                 /\ form' = "other"
                 /\ saved' = <<>>
                 /\ UNCHANGED <<min_, max_, N_>>
            ELSE IF r.res = "False"
            THEN /\ min_' = [ii \in Axes |-> r.grid[ii][1]]
                 /\ max_' = [ii \in Axes |-> r.grid[ii][2]]
                 /\ N_' = [ii \in Axes |-> Trunc(r.grid[ii][CountColumn])]
                 /\ form' = "other"
                 /\ saved' = <<>>
                 /\ UNCHANGED <<x, y, z, is_list>>
            ELSE UNCHANGED <<x, y, z, is_list, min_, max_, N_, form, saved>>
  /\ UNCHANGED <<delta_, d3r, ncenter>>

\* line 331 on a path that cannot be opened
read_missing ==
  /\ Alive
  /\ op' = Call("read", [kind |-> "missing", file |-> <<>>], "IOError")
  /\ UNCHANGED <<gridvars, form, saved, ncenter>>


(***************************************************************************)
(* Specifications                                                          *)
(***************************************************************************)
\* every operation of the module, on a few inputs each
Next ==
  \/ \E v \in BOOLEAN : grid_init(v)
  \/ reset_grid
  \/ grid2vector
  \/ vector2grid
  \/ \E ac \in CoreAnchors : center_grid(ac)
  \/ sph2cart_vector(<<F(1), F(2)>>, <<0, 1>>, <<0>>)
  \/ \E g \in GeoSpecs, n \in 1..MaxSamples : random_grid(g, n)
  \/ \E f \in CoreFiles : read(f)
  \/ read_missing

Spec == Init /\ [][Next]_vars

\* the file codec on many files
NextCodec ==
  \/ \E f \in CodecFiles : read(f)
  \/ read_missing
  \/ \E v \in BOOLEAN : grid_init(v)
  \/ reset_grid

SpecCodec == Init /\ [][NextCodec]_vars

\* one regular grid of one of many shapes: built, flattened, centered
NextBuild ==
  \/ \E f \in RegularFiles : read(f)
  \/ \E v \in BOOLEAN : grid_init(v)
  \/ grid2vector
  \/ vector2grid
  \/ \E ac \in Anchors : center_grid(ac)

SpecBuild == Init /\ [][NextBuild]_vars


(***************************************************************************)
(* Claims                                                                  *)
(***************************************************************************)
Coords == <<x, y, z>>
Zero3 == <<F(0), F(0), F(0)>>

\* the coordinates grid_init would write for the bounds and counts in force
Rebuilt == [ii \in Axes |-> AxisGrid(min_[ii], max_[ii], N_[ii])]

\* C1: while is_initialized is true, a call of grid_init with either
\* argument changes no grid state variable, and is_initialized stays true
\* until reset_grid is called.
C1_InitIsNoop ==
  [][ /\ (is_initialized /\ op'.name = "grid_init") => UNCHANGED gridvars
      /\ (is_initialized /\ ~is_initialized') => op'.name = "reset_grid"
    ]_vars

\* grid_init was called on an initialized grid whose coordinates are not
\* the ones it would build
C1_Witness ==
  /\ op.name = "grid_init"
  /\ op.res = "noop"
  /\ is_initialized
  /\ Coords # Rebuilt


\* a regular-format file as documented: its data lines are one four-token
\* line per axis letter (either case, any order) holding numeric literals
AxisLine(f, a) ==
  LET d == DataLines(f)
  IN  d[CHOOSE l \in 1..Len(d) : Lower(d[l][1]) = a]
WellFormedRegular(f) ==
  LET d == DataLines(f)
  IN  /\ Len(d) = 3
      /\ \A l \in 1..3 : Len(d[l]) = 4 /\ \A c \in 2..4 : IsNumber(d[l][c])
      /\ \A a \in {"x", "y", "z"} : \E l \in 1..3 : Lower(d[l][1]) = a
AxisName == <<"x", "y", "z">>
FileMin(f) == [ii \in Axes |-> ParseFloat(AxisLine(f, AxisName[ii])[2])]
FileMax(f) == [ii \in Axes |-> ParseFloat(AxisLine(f, AxisName[ii])[3])]
FileN(f) ==
  [ii \in Axes |->
     CHOOSE n \in (-MaxLiteral)..MaxLiteral :
       ToString(n) = AxisLine(f, AxisName[ii])[4]]

RegularRead == op'.name = "read" /\ op'.res = "False"

\* C3 as stated: after a successful read of a regular-format file, from any
\* state, min_, max_ and N_ hold the file's values, the coordinate arrays
\* are untouched and is_initialized is false.
C3_AsStated ==
  [][ (RegularRead /\ WellFormedRegular(op'.arg.file)) =>
        /\ min_' = FileMin(op'.arg.file)
        /\ max_' = FileMax(op'.arg.file)
        /\ N_' = FileN(op'.arg.file)
        /\ UNCHANGED <<x, y, z>>
        /\ ~is_initialized'
    ]_vars

\* C3 amended: after a successful read of a regular-format file, from any
\* state, min_, max_ and N_ hold the file's values, the coordinate arrays
\* are untouched and is_initialized has the value it had before the read.
C3_KeepsInitialized ==
  [][ (RegularRead /\ WellFormedRegular(op'.arg.file)) =>
        /\ min_' = FileMin(op'.arg.file)
        /\ max_' = FileMax(op'.arg.file)
        /\ N_' = FileN(op'.arg.file)
        /\ UNCHANGED <<x, y, z>>
        /\ is_initialized' = is_initialized
    ]_vars

\* a regular-format file was read over an initialized grid, whose
\* coordinates are not the ones of the bounds just read
C3_Witness ==
  /\ op.name = "read"
  /\ op.res = "False"
  /\ WellFormedRegular(op.arg.file)
  /\ is_initialized
  /\ ~is_list
  /\ Coords # Rebuilt

\* C4: a read of a file that mixes a three-token line and a four-token line
\* (in either order) ends in the IOError of check and leaves every grid
\* state variable as it was.
C4_MixedFails ==
  [][ (op'.name = "read" /\ op'.arg.kind = "mixed") =>
        /\ op'.res = "IOError"
        /\ UNCHANGED gridvars
    ]_vars

\* a mixed file was refused while a grid was in place
C4_Witness ==
  /\ op.name = "read"
  /\ op.arg.kind = "mixed"
  /\ op.res = "IOError"
  /\ is_initialized

\* a vector-format file as documented: a header that is a permutation of
\* x, y, z, then rows of three numeric literals
PermVector(f) ==
  LET d == DataLines(f)
  IN  /\ Len(d) >= 1
      /\ d[1] \in Perms
      /\ \A l \in 2..Len(d) : Len(d[l]) = 3 /\ \A c \in 1..3 : IsNumber(d[l][c])

\* the values of the column the header names a, in file order
Column(f, a) ==
  LET d == DataLines(f)
      c == CHOOSE c \in 1..3 : d[1][c] = a
  IN  [r \in 1..(Len(d) - 1) |-> ParseFloat(d[r + 1][c])]

\* C6: a successful read of a vector-format file with a permuted header and
\* n rows sets x, y, z to the n values of the column the header names x, y,
\* z, in file order, and sets is_initialized, so that a following grid_init
\* leaves those points alone.
C6_ColumnsByHeader ==
  [][ /\ (op'.name = "read" /\ op'.res = "True" /\ PermVector(op'.arg.file)) =>
           /\ x' = Column(op'.arg.file, "x")
           /\ y' = Column(op'.arg.file, "y")
           /\ z' = Column(op'.arg.file, "z")
           /\ is_initialized'
      /\ (op.name = "read" /\ op.res = "True" /\ op'.name = "grid_init") =>
           UNCHANGED <<x, y, z>>
    ]_vars

\* two points were read from a file whose columns are z, x, y, and
\* grid_init was called after it
C6_Witness ==
  /\ op.name = "grid_init"
  /\ op.res = "noop"
  /\ x = <<F(-5), F(7)>>
  /\ y = <<F(0), F(0)>>
  /\ z = <<F(5), F(2)>>


\* bounds in ascending order and positive counts on every axis
Ascending == \A ii \in Axes : FLe(min_[ii], max_[ii])
PositiveCounts == \A ii \in Axes : N_[ii] >= 1

\* C2 as stated: grid2vector on the per-axis arrays grid_init built for
\* bounds with min <= max and positive counts returns normally and leaves
\* three arrays of length Nx*Ny*Nz whose entry i*Ny*Nz + j*Nz + k is
\* (x[i], y[j], z[k]) for the lengths Nx, Ny, Nz of the arrays it was given.
C2_AsStated ==
  [][ (form = "regular" /\ Ascending /\ PositiveCounts
         /\ op'.name = "grid2vector") =>
        LET Nx == Len(x)
            Ny == Len(y)
            Nz == Len(z)
        IN  /\ op'.res = "ok"
            /\ Len(x') = Nx * Ny * Nz
            /\ Len(y') = Nx * Ny * Nz
            /\ Len(z') = Nx * Ny * Nz
            /\ \A i \in 0..(Nx - 1), j \in 0..(Ny - 1), k \in 0..(Nz - 1) :
                 LET c == i * Ny * Nz + j * Nz + k + 1
                 IN  /\ x'[c] = x[i + 1]
                     /\ y'[c] = y[j + 1]
                     /\ z'[c] = z[k + 1]
    ]_vars

\* an axis whose count grid_init is documented to refuse
BadCount ==
  \E ii \in Axes :
    \/ N_[ii] < 1
    \/ N_[ii] = 1 /\ ~FEq(max_[ii], min_[ii])

\* C5 as stated: grid_init on an uninitialized grid with a count below one,
\* or a count of one on an axis with max # min, fails with a configuration
\* error and does not mark the grid initialized.
C5_AsStated ==
  [][ (~is_initialized /\ BadCount /\ op'.name = "grid_init") =>
        /\ op'.res = "ConfigurationError"
        /\ ~is_initialized'
    ]_vars

\* C8 as stated: vector2grid after grid2vector on a grid built by
\* grid_init(False) returns normally and restores the per-axis vectors x, y,
\* z held before grid2vector.
C8_AsStated ==
  (op.name = "vector2grid" /\ form \in {"flat", "reflat"}) =>
    /\ op.res = "ok"
    /\ Coords = saved

C10_AsStated ==
  form \in {"regular", "centered"} =>
    /\ \A ii \in Axes :
         ~FEq(min_[ii], max_[ii]) =>
           /\ delta_[ii] = FDiv(FSub(max_[ii], min_[ii]), F(N_[ii] - 1))
           /\ \A k \in 1..(Len(Coords[ii]) - 1) :
                FSub(Coords[ii][k + 1], Coords[ii][k]) = delta_[ii]
           /\ N_[ii] = Len(Coords[ii])
    /\ d3r = FProd3(delta_)

\* a grid built by grid_init with min = -max and a count of two or more on
\* every axis, and a successful center_grid((0, 0, 0)) on it
SymmetricGrid ==
  /\ form = "regular"
  /\ \A ii \in Axes : min_[ii] = FNeg(max_[ii]) /\ N_[ii] >= 2
CenterZero == op'.name = "center_grid" /\ op'.res = "ok" /\ op'.arg = Zero3

\* no coordinate of axis ii moves by more than half the spacing in force
\* before the call
WithinHalfCell(ii) ==
  /\ Len(Coords'[ii]) = Len(Coords[ii])
  /\ \A k \in 1..Len(Coords[ii]) :
       FLe(FAbs(FSub(Coords'[ii][k], Coords[ii][k])),
           FMul(Q(1, 2), FAbs(delta_[ii])))

====
